---- MODULE Spec2Model ----
(***************************************************************************)
(* Model of python_app/scheduler.py: the preference normalizer             *)
(* (collect_employee_preferences), the deterministic tie-breaker           *)
(* (deterministic_shuffle) and the assignment engine (generate_schedule).  *)
(*                                                                         *)
(* Python values are tagged records: a str is [t |-> "str", base, cased,   *)
(* padded] where base is the text lower-cased and stripped, cased says the *)
(* text has an upper-case letter and padded says it has surrounding        *)
(* whitespace; a dict is its item list in insertion order.                 *)
(***************************************************************************)
EXTENDS Integers, Sequences, FiniteSets, TLC

\* ------------------------------------------------------------------ bounds
MaxEmployees == 7
MaxPriority == 2
\* the largest roster of the runs with ample staff
MaxStaff == 14
\* the longest list with repeated elements given to the tie-breaker
MaxShuffleLen == 4

\* ------------------------------------------------------- program constants
DAYS_OF_WEEK ==
    <<"Monday", "Tuesday", "Wednesday", "Thursday", "Friday", "Saturday", "Sunday">>

VALID_SHIFTS ==
    <<"morning", "afternoon", "evening">>

MinEmployees == 6
MaxDaysPerWeek == 5
PerShift == 2
DefaultSeed == 1
WordBits == 32
PriorityGap == 10

\* ------------------------------------------------------------ Python values
PyNone == [t |-> "none"]

PyStr(b, c, p) == [t |-> "str", base |-> b, cased |-> c, padded |-> p]

Plain(b) == PyStr(b, FALSE, FALSE)

PyInt(n) == [t |-> "int", v |-> n]

PyFloat == [t |-> "float"]

PyList(es) == [t |-> "list", elems |-> es]

PyDict(its) == [t |-> "dict", items |-> its]

IsStr(x) == x.t = "str"

IsDict(x) == x.t = "dict"

\* str.strip(): drops the surrounding whitespace
Strip(s) == [s EXCEPT !.padded = FALSE]

\* str.lower(): folds the upper-case letters
Lower(s) == [s EXCEPT !.cased = FALSE]

\* x == "literal" for a str x and an all-lower-case, unpadded literal
EqLit(x, lit) == IsStr(x) /\ ~x.cased /\ ~x.padded /\ x.base = lit

Range(s) == {s[i] : i \in 1..Len(s)}

\* x in VALID_SHIFTS / x in DAYS_OF_WEEK for a Python value x
InLits(x, lits) == \E i \in 1..Len(lits) : EqLit(x, lits[i])

\* dict helpers over the item list <<key, value>>
DictKeys(d) == [i \in 1..Len(d.items) |-> d.items[i][1]]

DictHas(d, k) == \E i \in 1..Len(d.items) : d.items[i][1] = k

DictGet(d, k) == d.items[CHOOSE i \in 1..Len(d.items) : d.items[i][1] = k][2]

\* ------------------------------------------------ alphabetical order, sorted
\* Python compares the three shift names as strings: a < e < m
AlphaIndex(s) ==
    CASE s = "afternoon" -> 1
      [] s = "evening" -> 2
      [] s = "morning" -> 3

\* the sort key (priority, name) of sorted(priorities.items(), key=...)
KeyLess(p1, s1, p2, s2) == p1 < p2 \/ (p1 = p2 /\ AlphaIndex(s1) < AlphaIndex(s2))

\* sorted(...) of the shift names in dom by the key (prio[s], s): position k
\* holds the name with exactly k-1 names before it
SortedByPriority(prio) ==
    LET dom == DOMAIN prio
        before(s) == Cardinality({u \in dom : KeyLess(prio[u], u, prio[s], s)})
    IN [k \in 1..Cardinality(dom) |-> CHOOSE s \in dom : before(s) = k - 1]

\* sorted(VALID_SHIFTS)
SortedShifts == SortedByPriority([s \in Range(VALID_SHIFTS) |-> 0])

\* ------------------------------------------------------ results of a call
Ok(v) == [ok |-> TRUE, val |-> v]

Raise(e, w) == [ok |-> FALSE, exc |-> e, what |-> w]

\* ------------------------------------------- collect_employee_preferences
\* lines 55-60: the chosen shift gets 1, the others 2 and 3 in VALID_SHIFTS order
StringPriorities(s) ==
    LET idx(u) == CHOOSE i \in 1..Len(VALID_SHIFTS) : VALID_SHIFTS[i] = u
        othersUpTo(u) == {i \in 1..idx(u) : VALID_SHIFTS[i] # s}
    IN [u \in Range(VALID_SHIFTS) |-> IF u = s THEN 1 ELSE 1 + Cardinality(othersUpTo(u))]

\* line 64: a list of len(VALID_SHIFTS) elements, each one of VALID_SHIFTS
IsRankedList(pri_map) ==
    /\ pri_map.t = "list"
    /\ Len(pri_map.elems) = Len(VALID_SHIFTS)
    /\ \A i \in 1..Len(pri_map.elems) : InLits(pri_map.elems[i], VALID_SHIFTS)

\* faulty variant: the limit of two explicit preferences is not enforced
ItemErrorNoLimit(items, i) ==
    LET shift_name == items[i][1]
        p == items[i][2]
        s_lower == Strip(Lower(shift_name))
    IN IF ~IsStr(shift_name) THEN "shift_key_type"
       ELSE IF s_lower.base \notin Range(VALID_SHIFTS) THEN "invalid_shift"
       ELSE IF \E j \in 1..(i - 1) : Strip(Lower(items[j][1])) = s_lower
            THEN "duplicate_shift"
       ELSE IF p.t # "int" \/ p.v < 1 THEN "bad_priority"
       ELSE ""

\* lines 72-85: the check that rejects item i of a priority map ("" if none)
ItemError(items, i) ==
    LET shift_name == items[i][1]
        p == items[i][2]
        s_lower == Strip(Lower(shift_name))
    IN IF ~IsStr(shift_name) THEN "shift_key_type"
       ELSE IF s_lower.base \notin Range(VALID_SHIFTS) THEN "invalid_shift"
       ELSE IF \E j \in 1..(i - 1) : Strip(Lower(items[j][1])) = s_lower
            THEN "duplicate_shift"
       ELSE IF i > 2 THEN "too_many_preferences"
       ELSE IF p.t # "int" \/ p.v < 1 THEN "bad_priority"
       ELSE ""

\* faulty variant: the unnamed shifts get the default priority 1 whatever the map says
MapPrioritiesDefaultFirst(items) ==
    LET named == {Strip(Lower(items[i][1])).base : i \in 1..Len(items)}
        pOf(s) == items[CHOOSE i \in 1..Len(items) : Strip(Lower(items[i][1])).base = s][2].v
    IN [s \in Range(VALID_SHIFTS) |-> IF s \in named THEN pOf(s) ELSE 1]

\* lines 87-90: the priorities of an accepted map, unnamed shifts at max + 10
MapPriorities(items) ==
    LET named == {Strip(Lower(items[i][1])).base : i \in 1..Len(items)}
        pOf(s) == items[CHOOSE i \in 1..Len(items) : Strip(Lower(items[i][1])).base = s][2].v
        maxP == CHOOSE m \in {pOf(s) : s \in named} : \A s \in named : pOf(s) <= m
        default_p == IF named # {} THEN maxP + PriorityGap ELSE 1
    IN [s \in Range(VALID_SHIFTS) |-> IF s \in named THEN pOf(s) ELSE default_p]

\* faulty variant: the ranked list is taken back to front
RankedListReversed(pri_map) ==
    [i \in 1..Len(pri_map.elems) |-> pri_map.elems[Len(pri_map.elems) + 1 - i].base]

\* line 65: list(pri_map), the elements (exact shift names) in the given order
RankedListCopy(pri_map) == [i \in 1..Len(pri_map.elems) |-> pri_map.elems[i].base]

\* lines 47-92: one day's raw preference to its ranked list, or the rejection
NormalizeDay(pri_map) ==
    IF pri_map.t = "none" \/ (IsDict(pri_map) /\ Len(pri_map.items) = 0)
    THEN Ok(SortedShifts)
    ELSE IF IsStr(pri_map)
    THEN LET s == Strip(Lower(pri_map))
         IN IF s.base \notin Range(VALID_SHIFTS)
            THEN Raise("ValueError", "invalid_shift")
            ELSE Ok(SortedByPriority(StringPriorities(s.base)))
    ELSE IF IsRankedList(pri_map)
    THEN Ok(RankedListCopy(pri_map))
    ELSE IF ~IsDict(pri_map)
    THEN Raise("ValueError", "preference_type")
    ELSE LET bad == {i \in 1..Len(pri_map.items) : ItemError(pri_map.items, i) # ""}
         IN IF bad # {}
            THEN Raise("ValueError",
                       ItemError(pri_map.items, CHOOSE i \in bad : \A j \in bad : i <= j))
            ELSE Ok(SortedByPriority(MapPriorities(pri_map.items)))

\* faulty variant: a key outside DAYS_OF_WEEK is let through
UnknownDayIgnored(k) == FALSE

\* line 45: day not in DAYS_OF_WEEK
UnknownDay(k) == k \notin Range(DAYS_OF_WEEK)

\* lines 36-46 and 93-96: the check that rejects one employee's entry ("" if none)
EntryError(emp_name, day_map) ==
    IF ~IsStr(emp_name) \/ Strip(emp_name).base = "" THEN "invalid_name"
    ELSE IF ~IsDict(day_map) THEN "day_map_type"
    ELSE IF \E i \in 1..Len(DAYS_OF_WEEK) : ~DictHas(day_map, DAYS_OF_WEEK[i])
    THEN "missing_day"
    ELSE LET its == day_map.items
             itemBad(i) == IF UnknownDay(its[i][1]) THEN "invalid_day"
                           ELSE IF ~NormalizeDay(its[i][2]).ok
                           THEN NormalizeDay(its[i][2]).what
                           ELSE ""
             bad == {i \in 1..Len(its) : itemBad(i) # ""}
         IN IF bad # {} THEN itemBad(CHOOSE i \in bad : \A j \in bad : i <= j)
            ELSE IF \E i \in 1..Len(its) : Len(NormalizeDay(its[i][2]).val) # 3
            THEN "incomplete"
            ELSE ""

\* lines 43-92: normalized[emp_name], a mapping day -> ranked list
NormalizedDays(day_map) ==
    [d \in Range(DAYS_OF_WEEK) |-> NormalizeDay(DictGet(day_map, d)).val]

\* faulty variant: the result is keyed by the trimmed, lower-cased name
NormalizedKeyLowered(emp_name) == Lower(Strip(emp_name))

\* line 43: normalized[emp_name], keyed by the key of the input as it is written
NormalizedKey(emp_name) == emp_name

\* faulty variant: the names are compared as written
ComparisonNameExact(n) == n

\* line 31: n.strip().lower(), the form in which the names are compared
ComparisonName(n) == Lower(Strip(n))

\* lines 26-97: the normalized mapping, a dict with the items <<emp_name, days>>
\* keyed by the caller's own emp_name (line 43), or the exception raised
collect_employee_preferences(raw_prefs) ==
    IF ~IsDict(raw_prefs) THEN Raise("ValueError", "top_level_type")
    ELSE IF Len(raw_prefs.items) = 0 THEN Raise("ValueError", "no_employees")
    ELSE IF \E i \in 1..Len(raw_prefs.items) : ~IsStr(raw_prefs.items[i][1])
    THEN Raise("AttributeError", "strip")
    ELSE LET its == raw_prefs.items
             emp_names == [i \in 1..Len(its) |-> ComparisonName(its[i][1])]
             bad == {i \in 1..Len(its) : EntryError(its[i][1], its[i][2]) # ""}
         IN IF Cardinality(Range(emp_names)) # Len(emp_names)
            THEN Raise("ValueError", "duplicate_employee")
            ELSE IF bad # {}
            THEN Raise("ValueError",
                       LET i == CHOOSE k \in bad : \A j \in bad : k <= j
                       IN EntryError(its[i][1], its[i][2]))
            ELSE Ok(PyDict([i \in 1..Len(its) |->
                           <<NormalizedKey(its[i][1]), NormalizedDays(its[i][2])>>]))

\* ---------------------------------------------------- deterministic_shuffle
\* random_seed stays below 2^32 (both left shifts are masked with 0xFFFFFFFF);
\* it is kept as two 16-bit halves <<hi, lo>>, value hi * 2^16 + lo
Half == 2 ^ (WordBits \div 2)

ToWord(n) == <<n \div Half, n % Half>>

\* (w << k) & 0xFFFFFFFF, for 0 < k < 16
ShiftLeftMasked(w, k) ==
    LET keep == 2 ^ ((WordBits \div 2) - k)
    IN <<(w[1] % keep) * (2 ^ k) + (w[2] \div keep), (w[2] % keep) * (2 ^ k)>>

\* w >> k, for 16 <= k < 32
ShiftRight(w, k) == <<0, w[1] \div (2 ^ (k - (WordBits \div 2)))>>

\* a ^ b on non-negative integers, bit by bit
RECURSIVE XorInt(_, _)
XorInt(a, b) ==
    IF a = 0 THEN b
    ELSE IF b = 0 THEN a
    ELSE (((a % 2) + (b % 2)) % 2) + 2 * XorInt(a \div 2, b \div 2)

Xor(a, b) == <<XorInt(a[1], b[1]), XorInt(a[2], b[2])>>

\* lines 15-17: the three xorshift updates of random_seed
\* (each update is computed once, from the value the one before it left)
NextSeed(w) ==
    CHOOSE c \in {Xor(b, ShiftLeftMasked(b, 5)) :
                    b \in {Xor(a, ShiftRight(a, 17)) :
                             a \in {Xor(w, ShiftLeftMasked(w, 13))}}} : TRUE

\* line 18: abs(random_seed) % 1000
Mod1000(w) == ((w[1] % 1000) * (Half % 1000) + w[2]) % 1000

\* line 21: int(pseudo_random() * m), with pseudo_random() = r / 1000 for the
\* integer r = Mod1000(w); for m < 30 the float product r / 1000 * m truncates
\* to (r * m) div 1000
SwapIndex(w, m) == (Mod1000(w) * m) \div 1000

\* lines 20-23: the Fisher-Yates loop, m counting down (lists are 1-based here)
RECURSIVE ShuffleLoop(_, _, _)
ShuffleLoop(arr, w, m) ==
    IF m = 0 THEN arr
    ELSE LET w1 == NextSeed(w)
             i == SwapIndex(w1, m)
             m1 == m - 1
             swapped == [arr EXCEPT ![m1 + 1] = arr[i + 1], ![i + 1] = arr[m1 + 1]]
         IN ShuffleLoop(swapped, w1, m1)

deterministic_shuffle(arr, seed) == ShuffleLoop(arr, ToWord(seed), Len(arr))

\* ------------------------------------------------------------------ state
Runs == {1, 2}

VARIABLES
    raw_preferences,  \* per run: the argument of the call
    pc,               \* per run: idle, start, cell, step4, fallback1, fallback2, done, raised
    outcome,          \* per run: what the call returned or raised, Unbound while it runs
    preferences,      \* per run: the normalized mapping (line 102)
    schedule,         \* per run: day -> shift -> list of employees (line 106)
    assigned_count,   \* per run: employee -> entries so far (line 107)
    assigned_today,   \* per run: employee -> placed on the current day (line 109)
    day,              \* per run: index into DAYS_OF_WEEK of the day loop
    shift,            \* per run: index into VALID_SHIFTS of the shift loop
    ordered,          \* per run: the candidate list of the current cell (lines 123-126)
    idx,              \* per run: elements already visited by the current for loop
    placed,           \* per run: line 128
    origin,           \* per run, history: day -> shift -> the step that added each entry
    shuffle           \* a direct call of deterministic_shuffle: its argument and locals

vars == <<raw_preferences, pc, outcome, preferences, schedule, assigned_count,
          assigned_today, day, shift, ordered, idx, placed, origin, shuffle>>

\* a local that no statement has bound yet
Unbound == [t |-> "unbound"]

Days == Range(DAYS_OF_WEEK)

Shifts == Range(VALID_SHIFTS)

\* line 103: employees = list(preferences.keys())
Employees(r) == DictKeys(preferences[r])

\* preferences[emp][d]
PrefList(r, emp, d) ==
    DictGet(preferences[r], emp)[d]

\* lines 117-120: pref_list.index(shift), or len(VALID_SHIFTS) when it is absent
RankOf(pref_list, s) ==
    IF \E i \in 1..Len(pref_list) : pref_list[i] = s
    THEN (CHOOSE i \in 1..Len(pref_list) :
            pref_list[i] = s /\ \A j \in 1..(i - 1) : pref_list[j] # s) - 1
    ELSE Len(VALID_SHIFTS)

\* faulty variant: the cap test stops an employee one entry early
UnderCapTooLow(r, emp) == assigned_count[r][emp] < MaxDaysPerWeek - 1

\* faulty variant: the cap test lets an employee with 5 entries through
UnderCapOffByOne(r, emp) == assigned_count[r][emp] <= MaxDaysPerWeek

\* assigned_count[emp] < 5 (lines 114, 130, 143, 153)
UnderCap(r, emp) == assigned_count[r][emp] < MaxDaysPerWeek

\* faulty variant: the test forgets the placed-today set
AvailableIgnoringToday(r, emp) == UnderCap(r, emp)

\* the test of lines 114, 130 and 143: under the cap and not placed today
Available(r, emp) == UnderCap(r, emp) /\ ~assigned_today[r][emp]

\* lines 112-121: rank_map[rank], in employee order
RankGroup(r, rank) ==
    LET d == DAYS_OF_WEEK[day[r]]
        s == VALID_SHIFTS[shift[r]]
        InGroup(emp) == Available(r, emp) /\ RankOf(PrefList(r, emp, d), s) = rank
    IN SelectSeq(Employees(r), InGroup)

\* faulty variant: the seed of the tie-breaker moves with the rank of the group
ShuffledGroupSeedByRank(r, rank, seed) ==
    deterministic_shuffle(RankGroup(r, rank), seed + rank)

\* line 125: the tie-breaker applied to one rank group
ShuffledGroup(r, rank, seed) == deterministic_shuffle(RankGroup(r, rank), seed)

\* lines 123-126: the groups in ascending rank, each one shuffled
RECURSIVE OrderedFrom(_, _, _)
OrderedFrom(r, rank, seed) ==
    IF rank > Len(VALID_SHIFTS) THEN <<>>
    ELSE ShuffledGroup(r, rank, seed) \o OrderedFrom(r, rank + 1, seed)

\* faulty variant: only the employees who rank the shift first become candidates
OrderedFirstRankOnly(r) == ShuffledGroup(r, 0, DefaultSeed)

\* faulty variant: the eligible employees are shuffled as one group, whatever
\* their ranks
OrderedUnranked(r) ==
    LET Eligible(emp) == Available(r, emp)
    IN deterministic_shuffle(SelectSeq(Employees(r), Eligible), DefaultSeed)

\* faulty variant: the seed is a process-wide value that every call advances
OrderedSharedSeed(r) == OrderedFrom(r, 0, DefaultSeed + r - 1)

Ordered(r) == OrderedFrom(r, 0, DefaultSeed)

\* the first position after from of list whose element is in pass, 0 if none
NextIndex(list, from, pass) ==
    LET hits == {k \in (from + 1)..Len(list) : list[k] \in pass}
    IN IF hits = {} THEN 0 ELSE CHOOSE k \in hits : \A j \in hits : k <= j

\* schedule[day][shift].append(emp)
Appended(sched, d, s, emp) == [sched EXCEPT ![d][s] = Append(@, emp)]

\* ---------------------------------------------------------------- actions
\* the new values of run r's locals; the argument and the other run are untouched
Set(r, npc, nout, nprefs, nsched, ncount, ntoday, nday, nshift, nord, nidx, nplaced, norig) ==
    /\ pc' = [pc EXCEPT ![r] = npc]
    /\ outcome' = [outcome EXCEPT ![r] = nout]
    /\ preferences' = [preferences EXCEPT ![r] = nprefs]
    /\ schedule' = [schedule EXCEPT ![r] = nsched]
    /\ assigned_count' = [assigned_count EXCEPT ![r] = ncount]
    /\ assigned_today' = [assigned_today EXCEPT ![r] = ntoday]
    /\ day' = [day EXCEPT ![r] = nday]
    /\ shift' = [shift EXCEPT ![r] = nshift]
    /\ ordered' = [ordered EXCEPT ![r] = nord]
    /\ idx' = [idx EXCEPT ![r] = nidx]
    /\ placed' = [placed EXCEPT ![r] = nplaced]
    /\ origin' = [origin EXCEPT ![r] = norig]
    /\ UNCHANGED <<raw_preferences, shuffle>>

\* faulty variant: the staffing threshold is one too low
EnoughStaffOffByOne(emps) == Len(emps) >= MinEmployees - 1

\* line 104: the staffing precondition
EnoughStaff(emps) == Len(emps) >= MinEmployees

\* faulty variant: the schedule is created without its last day
NewScheduleShort ==
    [d \in Days \ {DAYS_OF_WEEK[Len(DAYS_OF_WEEK)]} |-> [s \in Shifts |-> <<>>]]

\* line 106: every day and shift with an empty list
NewSchedule == [d \in Days |-> [s \in Shifts |-> <<>>]]

\* faulty variant: the counters start at one
NewCountsFromOne(emps) == [e \in Range(emps) |-> 1]

\* line 107: a zero counter per employee
NewCounts(emps) == [e \in Range(emps) |-> 0]

\* line 109: assigned_today = set()
NoneToday(emps) == [e \in Range(emps) |-> FALSE]

\* a direct call of collect_employee_preferences (lines 26-97)
Collect(r) ==
    /\ pc[r] = "collect"
    /\ LET res == collect_employee_preferences(raw_preferences[r])
       IN Set(r, IF res.ok THEN "returned" ELSE "raised", res,
              IF res.ok THEN res.val ELSE Unbound,
              schedule[r], assigned_count[r], assigned_today[r], day[r], shift[r],
              ordered[r], idx[r], placed[r], origin[r])

\* generate_schedule, lines 100-109: validate, normalize, check the staffing,
\* create the schedule and the counters and enter the first day
Start(r) ==
    /\ pc[r] = "start"
    /\ LET res == collect_employee_preferences(raw_preferences[r])
           emps == DictKeys(res.val)
       IN IF ~res.ok
          THEN Set(r, "raised", res, Unbound, schedule[r], assigned_count[r],
                   assigned_today[r], day[r], shift[r], ordered[r], idx[r], placed[r],
                   origin[r])
          ELSE IF ~EnoughStaff(emps)
          THEN Set(r, "raised", Raise("ValueError", "insufficient_staff"), res.val,
                   schedule[r], assigned_count[r], assigned_today[r], day[r], shift[r],
                   ordered[r], idx[r], placed[r], origin[r])
          ELSE Set(r, "cell", Unbound, res.val, NewSchedule, NewCounts(emps),
                   NoneToday(emps), 1, 1, ordered[r], idx[r], placed[r], NewSchedule)

\* faulty variant: the tie-breaker is seeded with a value that differs from call to call
StartCellSeedPerCall(r) ==
    /\ pc[r] = "cell"
    /\ Set(r, "step4", outcome[r], preferences[r], schedule[r], assigned_count[r],
           assigned_today[r], day[r], shift[r], OrderedFrom(r, 0, r), 0, 0, origin[r])

\* lines 110-128: build the candidate list of the current cell
StartCell(r) ==
    /\ pc[r] = "cell"
    /\ Set(r, "step4", outcome[r], preferences[r], schedule[r], assigned_count[r],
           assigned_today[r], day[r], shift[r], Ordered(r), 0, 0, origin[r])

\* faulty variant: the loop over the days stops one day early
LeaveCellEarlyReturn(r, nsched, ncount, ntoday, nplaced, norig) ==
    IF shift[r] < Len(VALID_SHIFTS)
    THEN Set(r, "cell", outcome[r], preferences[r], nsched, ncount, ntoday, day[r],
             shift[r] + 1, ordered[r], 0, nplaced, norig)
    ELSE IF day[r] < Len(DAYS_OF_WEEK) - 1
    THEN Set(r, "cell", outcome[r], preferences[r], nsched, ncount,
             NoneToday(Employees(r)), day[r] + 1, 1, ordered[r], 0, nplaced, norig)
    ELSE Set(r, "done", Ok(nsched), preferences[r], nsched, ncount, ntoday, day[r],
             shift[r], ordered[r], 0, nplaced, norig)

\* the end of a cell: next shift, or next day with a fresh assigned_today
\* (line 109), or return schedule (line 157)
LeaveCell(r, nsched, ncount, ntoday, nplaced, norig) ==
    IF shift[r] < Len(VALID_SHIFTS)
    THEN Set(r, "cell", outcome[r], preferences[r], nsched, ncount, ntoday, day[r],
             shift[r] + 1, ordered[r], 0, nplaced, norig)
    ELSE IF day[r] < Len(DAYS_OF_WEEK)
    THEN Set(r, "cell", outcome[r], preferences[r], nsched, ncount,
             NoneToday(Employees(r)), day[r] + 1, 1, ordered[r], 0, nplaced, norig)
    ELSE Set(r, "done", Ok(nsched), preferences[r], nsched, ncount, ntoday, day[r],
             shift[r], ordered[r], 0, nplaced, norig)

\* one pass of a for loop over list: skip to the next element that passes the
\* test (is in pass) and append it (marking it placed today when marks), or run off the end
\* of the list and go to exitPc; a cell that reached two entries is left
LoopStep(r, list, pass, marks, label, exitPc) ==
    LET k == NextIndex(list, idx[r], pass)
        d == DAYS_OF_WEEK[day[r]]
        s == VALID_SHIFTS[shift[r]]
        emp == list[k]
        nsched == Appended(schedule[r], d, s, emp)
        ncount == [assigned_count[r] EXCEPT ![emp] = @ + 1]
        ntoday == IF marks THEN [assigned_today[r] EXCEPT ![emp] = TRUE]
                  ELSE assigned_today[r]
        norig == Appended(origin[r], d, s, label)
    IN IF k = 0
       THEN IF exitPc = "leave"
            THEN LeaveCell(r, schedule[r], assigned_count[r], assigned_today[r],
                           placed[r], origin[r])
            ELSE Set(r, exitPc, outcome[r], preferences[r], schedule[r],
                     assigned_count[r], assigned_today[r], day[r], shift[r],
                     ordered[r], 0, placed[r], origin[r])
       ELSE IF placed[r] + 1 >= PerShift
       THEN LeaveCell(r, nsched, ncount, ntoday, placed[r] + 1, norig)
       ELSE Set(r, pc[r], outcome[r], preferences[r], nsched, ncount, ntoday, day[r],
                shift[r], ordered[r], k, placed[r] + 1, norig)

\* lines 129-137: walk ordered, assign up to two
Step4(r) ==
    /\ pc[r] = "step4"
    /\ LoopStep(r, ordered[r], {emp \in Range(Employees(r)) : Available(r, emp)},
                TRUE, "step4", "fallback1")

\* lines 139-147: fill from any employee not placed today
FirstFallback(r) ==
    /\ pc[r] = "fallback1"
    /\ LoopStep(r, Employees(r), {emp \in Range(Employees(r)) : Available(r, emp)},
                TRUE, "fallback1", "fallback2")

\* lines 149-156: allow a double shift for the day
LastResort(r) ==
    /\ pc[r] = "fallback2"
    /\ LoopStep(r, Employees(r), {emp \in Range(Employees(r)) : UnderCap(r, emp)},
                FALSE, "fallback2", "leave")

Next ==
    \E r \in Runs :
        \/ Start(r)
        \/ StartCell(r)
        \/ Step4(r)
        \/ FirstFallback(r)
        \/ LastResort(r)

\* run r is inside generate_schedule: it has neither returned nor raised
Running(r) == pc[r] \in {"start", "cell", "step4", "fallback1", "fallback2"}

\* where a run can stand: the statement, the index reached in the list of the
\* current for loop, and placed
Positions ==
    {"start", "cell", "step4", "fallback1", "fallback2", "done", "raised"}
        \X (0..MaxStaff) \X (0..PerShift)

\* run r executes its next statement: it moves to another position. Each of
\* Start, StartCell, Step4, FirstFallback and LastResort is such a move, and
\* needs nothing but the run standing at its statement
Advance(r) ==
    /\ Running(r)
    /\ \E p \in Positions :
          /\ p # <<pc[r], idx[r], placed[r]>>
          /\ pc' = [pc EXCEPT ![r] = p[1]]
          /\ idx' = [idx EXCEPT ![r] = p[2]]
          /\ placed' = [placed EXCEPT ![r] = p[3]]

\* faulty variant: line 65 stores pri_map itself, so every accepted ranked list
\* of the result is the caller's own list object
BorrowedListsAliased(raw_prefs) ==
    {e \in (1..Len(raw_prefs.items)) \X Days :
        IsRankedList(DictGet(raw_prefs.items[e[1]][2], e[2]))}

\* the entries <<employee number, day>> of the result whose list is the very
\* list object of the caller: none, because sorted(...) (line 49), the list
\* comprehensions (lines 62, 92) and list(pri_map) (line 65) all build new lists
BorrowedLists(raw_prefs) == {}

\* a list back to front
Reversed(es) == [k \in 1..Len(es) |-> es[Len(es) + 1 - k]]

\* the argument after the caller has reversed, in place, the list it passed for
\* its first employee on Monday
ReversedInPlace(raw_prefs) ==
    LET day_map == raw_prefs.items[1][2]
        edited == PyDict([j \in 1..Len(day_map.items) |->
                            IF day_map.items[j][1] = DAYS_OF_WEEK[1]
                            THEN <<DAYS_OF_WEEK[1], PyList(Reversed(day_map.items[j][2].elems))>>
                            ELSE day_map.items[j]])
    IN PyDict([i \in 1..Len(raw_prefs.items) |->
                 IF i = 1 THEN <<raw_prefs.items[1][1], edited>> ELSE raw_prefs.items[i]])

\* the caller of collect_employee_preferences, after the call has returned,
\* reverses in place the list it passed for its first employee on Monday; the
\* returned mapping changes with it only where it holds that same list object
CallerEdits(r) ==
    /\ pc[r] = "returned"
    /\ IsRankedList(DictGet(raw_preferences[r].items[1][2], DAYS_OF_WEEK[1]))
    /\ LET shared == <<1, DAYS_OF_WEEK[1]>> \in BorrowedLists(raw_preferences[r])
           nprefs == IF shared
                     THEN [preferences[r] EXCEPT !.items[1][2][DAYS_OF_WEEK[1]] = Reversed(@)]
                     ELSE preferences[r]
       IN /\ raw_preferences' = [raw_preferences EXCEPT ![r] = ReversedInPlace(@)]
          /\ pc' = [pc EXCEPT ![r] = "edited"]
          /\ preferences' = [preferences EXCEPT ![r] = nprefs]
          /\ outcome' = [outcome EXCEPT ![r] = Ok(nprefs)]
          /\ UNCHANGED <<schedule, assigned_count, assigned_today, day, shift, ordered,
                         idx, placed, origin, shuffle>>

NextCollect == \E r \in Runs : Collect(r) \/ CallerEdits(r)

\* ------------------------------- generate_schedule as a function of its input
\* the locals of a call as a record: st.schedule, st.count (assigned_count),
\* st.today (assigned_today) and st.cell, the number of (day, shift) cells that
\* the loops of lines 108 and 110 have completed

\* the day and the shift of the cell the loops are in
DayOf(st) == DAYS_OF_WEEK[(st.cell \div Len(VALID_SHIFTS)) + 1]

ShiftOf(st) == VALID_SHIFTS[(st.cell % Len(VALID_SHIFTS)) + 1]

\* the test of lines 114, 130 and 143, and the test of line 153 when a double
\* shift is allowed
PassesTest(st, emp, double) ==
    st.count[emp] < MaxDaysPerWeek /\ (double \/ ~st.today[emp])

\* lines 112-126 for ranks rank, rank + 1, ...: the shuffled rank groups
RECURSIVE OrderedOf(_, _, _)
OrderedOf(prefs, st, rank) ==
    LET InGroup(emp) ==
            /\ PassesTest(st, emp, FALSE)
            /\ RankOf(DictGet(prefs, emp)[DayOf(st)], ShiftOf(st)) = rank
    IN IF rank > Len(VALID_SHIFTS) THEN <<>>
       ELSE deterministic_shuffle(SelectSeq(DictKeys(prefs), InGroup), DefaultSeed)
                \o OrderedOf(prefs, st, rank + 1)

\* the first n elements of list, all of them if it has fewer
Take(list, n) == SubSeq(list, 1, IF Len(list) < n THEN Len(list) ELSE n)

\* the employees that one of the for loops of lines 129-137, 140-147 and
\* 150-156 appends when n are placed already: the elements of list are
\* distinct, so an append changes the test of no later element, and the loop
\* appends the first PerShift - n elements that pass the test when it starts
Appends(st, n, list, double) ==
    LET Passes(emp) == PassesTest(st, emp, double)
    IN Take(SelectSeq(list, Passes), PerShift - n)

\* the locals after the append of emp to the list of the cell (lines 132-134,
\* 144-146, 154-155)
AfterOne(st, emp, double) ==
    [schedule |-> Appended(st.schedule, DayOf(st), ShiftOf(st), emp),
     count |-> [st.count EXCEPT ![emp] = @ + 1],
     today |-> IF double THEN st.today ELSE [st.today EXCEPT ![emp] = TRUE],
     cell |-> st.cell]

\* the locals after such a loop has appended the employees of added in turn
RECURSIVE After(_, _, _)
After(st, added, double) ==
    IF added = <<>> THEN st
    ELSE After(AfterOne(st, Head(added), double), Tail(added), double)

\* line 109: assigned_today = set() when a day begins
DayStart(prefs, st) ==
    IF st.cell % Len(VALID_SHIFTS) = 0
    THEN [st EXCEPT !.today = NoneToday(DictKeys(prefs))]
    ELSE st

\* lines 109-156: step 4, the first fallback and the last resort of one cell
CellOf(prefs, st) ==
    LET st0 == DayStart(prefs, st)
        first == Appends(st0, 0, OrderedOf(prefs, st0, 0), FALSE)
        a == After(st0, first, FALSE)
        second == Appends(a, Len(first), DictKeys(prefs), FALSE)
        b == After(a, second, FALSE)
        third == Appends(b, Len(first) + Len(second), DictKeys(prefs), TRUE)
    IN [After(b, third, TRUE) EXCEPT !.cell = @ + 1]

\* lines 108-157 from the locals st on: the schedule returned
RECURSIVE CellsFrom(_, _)
CellsFrom(prefs, st) ==
    IF st.cell >= Len(DAYS_OF_WEEK) * Len(VALID_SHIFTS) THEN st.schedule
    ELSE CellsFrom(prefs, CellOf(prefs, st))

\* lines 99-157: what a call that runs by itself returns or raises
generate_schedule(raw_prefs) ==
    LET res == collect_employee_preferences(raw_prefs)
        emps == DictKeys(res.val)
    IN IF ~res.ok THEN res
       ELSE IF ~EnoughStaff(emps) THEN Raise("ValueError", "insufficient_staff")
       ELSE Ok(CellsFrom(res.val,
                         [schedule |-> NewSchedule, count |-> NewCounts(emps),
                          today |-> NoneToday(emps), cell |-> 0]))

\* ------------------------------------- deterministic_shuffle, step by step
\* line 11: arr = arr[:] binds the local name to a new list, so the list the
\* caller passed is no longer the one the loop writes to
SharesArgument == FALSE

\* faulty variant: only one of the two elements is written (arr[m] = arr[i])
SwappedOverwriting(list, a, b) == [list EXCEPT ![a + 1] = list[b + 1]]

\* line 23: arr[m], arr[i] = arr[i], arr[m] (0-based a and b, lists 1-based)
Swapped(list, a, b) == [list EXCEPT ![a + 1] = list[b + 1], ![b + 1] = list[a + 1]]

\* lines 11-12 and 19: copy the argument, take the seed, m = len(arr)
ShuffleEnter ==
    /\ shuffle.pc = "call"
    /\ shuffle' = [pc |-> "loop", given |-> shuffle.given, seed |-> shuffle.seed,
                   arr |-> shuffle.given, random_seed |-> ToWord(shuffle.seed),
                   m |-> Len(shuffle.given), i |-> 0, swaps |-> 0]
    /\ UNCHANGED <<raw_preferences, pc, outcome, preferences, schedule, assigned_count,
                   assigned_today, day, shift, ordered, idx, placed, origin>>

\* lines 20-23: one pass of the while loop
ShuffleSwap ==
    /\ shuffle.pc = "loop"
    /\ shuffle.m # 0
    /\ LET w1 == NextSeed(shuffle.random_seed)
           i == SwapIndex(w1, shuffle.m)
           m1 == shuffle.m - 1
           narr == Swapped(shuffle.arr, m1, i)
       IN shuffle' = [shuffle EXCEPT !.random_seed = w1, !.i = i, !.m = m1, !.arr = narr,
                                      !.swaps = @ + 1,
                                      !.given = IF SharesArgument THEN narr ELSE @]
    /\ UNCHANGED <<raw_preferences, pc, outcome, preferences, schedule, assigned_count,
                   assigned_today, day, shift, ordered, idx, placed, origin>>

\* lines 20 and 24: m is 0, return arr
ShuffleReturn ==
    /\ shuffle.pc = "loop"
    /\ shuffle.m = 0
    /\ shuffle' = [shuffle EXCEPT !.pc = "returned"]
    /\ UNCHANGED <<raw_preferences, pc, outcome, preferences, schedule, assigned_count,
                   assigned_today, day, shift, ordered, idx, placed, origin>>

NextShuffle == ShuffleEnter \/ ShuffleSwap \/ ShuffleReturn

\* ------------------------------------------------------------------ inputs
\* the employee identifiers of the inputs, "Alice", "Bob", ... (capitalised)
NamePool ==
    <<"alice", "bob", "carol", "dave", "eve", "frank", "grace", "hank", "ivy", "judy",
      "kim", "leo", "mia", "nick", "olga", "pat">>

EmployeeName(i) == PyStr(NamePool[i], TRUE, FALSE)

\* how many leading days of the week carry an explicit preference; the
\* remaining days are None
ExplicitDays == {1, 2, 7}

\* the number of the no-preference choice, after one choice per shift
NoPreferenceChoice == Len(VALID_SHIFTS) + 1

\* the raw preference number c as employee i writes it: c = 1, 2, 3 ranks
\* VALID_SHIFTS[c] first, written as a string, as a two-entry priority map, as
\* a ranked list or as a three-element list that repeats the shift name;
\* c = 4 is no preference, written None or {}
RawChoice(c, i) ==
    LET sh == VALID_SHIFTS[IF c <= 3 THEN c ELSE 1]
        nxt == VALID_SHIFTS[(c % 3) + 1]
        lst == VALID_SHIFTS[((c + 1) % 3) + 1]
    IN IF c <= 3
       THEN CASE i % 4 = 1 -> Plain(sh)
              [] i % 4 = 2 -> PyDict(<< <<Plain(sh), PyInt(1)>>, <<Plain(nxt), PyInt(MaxPriority)>> >>)
              [] i % 4 = 3 -> PyList(<<Plain(sh), Plain(lst), Plain(nxt)>>)
              [] i % 4 = 0 -> PyList(<<Plain(sh), Plain(sh), Plain(sh)>>)
       ELSE IF i % 2 = 1 THEN PyNone ELSE PyDict(<<>>)

\* one employee's week: preference v on the first k days, None afterwards
WeekOf(v, k) ==
    PyDict([j \in 1..Len(DAYS_OF_WEEK) |-> <<DAYS_OF_WEEK[j], IF j <= k THEN v ELSE PyNone>>])

\* the ways to split n employees into four consecutive blocks: the sizes
\* of the first three, the last block takes the rest
Blocks(n) == {f \in [1..Len(VALID_SHIFTS) -> 0..n] : f[1] + f[2] + f[3] <= n}

\* the choice of employee i when the blocks have sizes f[1], f[2], f[3], rest
ChoiceAt(f, i) ==
    IF i <= f[1] THEN 1
    ELSE IF i <= f[1] + f[2] THEN 2
    ELSE IF i <= f[1] + f[2] + f[3] THEN 3
    ELSE NoPreferenceChoice

\* n employees in input order, block sizes f, explicit on the first k days
RosterInput(n, f, k) ==
    PyDict([i \in 1..n |-> <<EmployeeName(i), WeekOf(RawChoice(ChoiceAt(f, i), i), k)>>])

ValidInputs ==
    UNION {{RosterInput(n, f, k) : f \in Blocks(n), k \in ExplicitDays} :
             n \in 1..MaxEmployees}

\* inputs the normalizer rejects: not a mapping, empty, a name twice up to
\* case, a missing day, an unknown shift
RejectedInputs ==
    {PyList(<<>>),
     PyDict(<<>>),
     PyDict(<< <<EmployeeName(1), WeekOf(PyNone, 7)>>,
               <<Lower(EmployeeName(1)), WeekOf(PyNone, 7)>> >>),
     PyDict(<< <<EmployeeName(1), PyDict(<< <<"Monday", PyNone>> >>)>> >>),
     PyDict(<< <<EmployeeName(1), WeekOf(Plain("midnight"), 7)>> >>)}

SchedulerInputs == ValidInputs \cup RejectedInputs

\* the state before run 1 (and run 2, unless it is idle) is called
InitWith(raw1, raw2, pc1, pc2) ==
    /\ raw_preferences = [r \in Runs |-> IF r = 1 THEN raw1 ELSE raw2]
    /\ pc = [r \in Runs |-> IF r = 1 THEN pc1 ELSE pc2]
    /\ outcome = [r \in Runs |-> Unbound]
    /\ preferences = [r \in Runs |-> Unbound]
    /\ schedule = [r \in Runs |-> Unbound]
    /\ assigned_count = [r \in Runs |-> Unbound]
    /\ assigned_today = [r \in Runs |-> Unbound]
    /\ day = [r \in Runs |-> 0]
    /\ shift = [r \in Runs |-> 0]
    /\ ordered = [r \in Runs |-> <<>>]
    /\ idx = [r \in Runs |-> 0]
    /\ placed = [r \in Runs |-> 0]
    /\ origin = [r \in Runs |-> Unbound]
    /\ shuffle = [pc |-> "idle"]

\* the smallest roster with which every cell finds two eligible employees:
\* before Sunday evening at most 40 entries exist, the four employees of Sunday
\* morning and afternoon hold at least one each, so at most seven others have
\* five, and 13 - 7 - 4 = 2 remain
FullStaff == 13

\* the roster sizes of the runs with ample staff, next to one small roster
StaffedSizes == {MinEmployees + 1} \cup (FullStaff..MaxStaff)

\* block sizes for a large roster: everyone the same shift, nobody a
\* preference, equal thirds, two per shift, all but one the same shift
StaffedBlocks(n) ==
    {<<n, 0, 0>>, <<0, n, 0>>, <<0, 0, n>>, <<0, 0, 0>>,
     <<n \div 3, n \div 3, n \div 3>>, <<2, 2, 2>>, <<n - 1, 1, 0>>}

\* the input of test_shift_conflict_resolution: employee i (from 0) asks for
\* shifts[(i + j) % 3] on day j (from 0)
RotatingInput(n) ==
    PyDict([i \in 1..n |->
              <<EmployeeName(i),
                PyDict([j \in 1..Len(DAYS_OF_WEEK) |->
                          <<DAYS_OF_WEEK[j],
                            Plain(VALID_SHIFTS[((i + j - 2) % Len(VALID_SHIFTS)) + 1])>>])>>])

StaffedInputs ==
    UNION {{RosterInput(n, f, k) : f \in StaffedBlocks(n), k \in ExplicitDays}
              \cup {RotatingInput(n)} : n \in StaffedSizes}

\* one call of generate_schedule on a large roster
InitStaffed == \E raw \in StaffedInputs : InitWith(raw, PyDict(<<>>), "start", "idle")

SpecStaffed == InitStaffed /\ [][Next]_vars

\* the lists given to the tie-breaker: every list of up to MaxShuffleLen of
\* the first three names, repeats included, and the first n names for every
\* roster size
ShuffleLists ==
    UNION {[1..n -> {NamePool[1], NamePool[2], NamePool[3]}] : n \in 0..MaxShuffleLen}
    \cup {[k \in 1..n |-> NamePool[k]] : n \in 0..MaxStaff}

\* the seeds: the default (the only one generate_schedule uses) and two others
ShuffleSeeds == {DefaultSeed, 2, 12345}

InitShuffle ==
    /\ \E list \in ShuffleLists, seed \in ShuffleSeeds :
          shuffle = [pc |-> "call", given |-> list, seed |-> seed]
    /\ raw_preferences = [r \in Runs |-> PyDict(<<>>)]
    /\ pc = [r \in Runs |-> "idle"]
    /\ outcome = [r \in Runs |-> Unbound]
    /\ preferences = [r \in Runs |-> Unbound]
    /\ schedule = [r \in Runs |-> Unbound]
    /\ assigned_count = [r \in Runs |-> Unbound]
    /\ assigned_today = [r \in Runs |-> Unbound]
    /\ day = [r \in Runs |-> 0]
    /\ shift = [r \in Runs |-> 0]
    /\ ordered = [r \in Runs |-> <<>>]
    /\ idx = [r \in Runs |-> 0]
    /\ placed = [r \in Runs |-> 0]
    /\ origin = [r \in Runs |-> Unbound]

\* one call of deterministic_shuffle, run by an interpreter that keeps
\* executing it
SpecShuffle == InitShuffle /\ [][NextShuffle]_vars /\ WF_vars(NextShuffle)

\* one call of generate_schedule on any input of the family
Init == \E raw \in SchedulerInputs : InitWith(raw, PyDict(<<>>), "start", "idle")

Spec == Init /\ [][Next]_vars

\* the same call, run by an interpreter that keeps executing it: a call that
\* has not returned or raised eventually executes its next statement
SpecLive == Init /\ [][Next]_vars /\ \A r \in Runs : WF_<<pc, idx, placed>>(Advance(r))

\* two calls of generate_schedule, each on its own argument, interleaved
PairInputs ==
    {RosterInput(MinEmployees, <<2, 2, 1>>, 7), RosterInput(MinEmployees + 1, <<7, 0, 0>>, 2)}

InitPair == \E raw1, raw2 \in PairInputs : InitWith(raw1, raw2, "start", "start")

SpecPair == InitPair /\ [][Next]_vars

\* the raw preference values given to the normalizer for one day
ShiftTexts == {"morning", "afternoon", "evening", "midnight", ""}

RawStrings == {PyStr(b, c, p) : b \in ShiftTexts, c \in BOOLEAN, p \in BOOLEAN}

ListElems == {Plain(VALID_SHIFTS[i]) : i \in 1..Len(VALID_SHIFTS)} \cup {PyStr("morning", TRUE, FALSE)}

RawLists == {PyList(es) : es \in [1..3 -> ListElems] \cup [1..2 -> ListElems] \cup {<<>>}}

MapKeys == ListElems \cup {PyStr("morning", FALSE, TRUE), Plain("midnight"), PyNone}

MapValues == {PyInt(p) : p \in 0..MaxPriority} \cup {PyFloat}

RawMaps ==
    {PyDict(<< <<k, v>> >>) : k \in MapKeys, v \in MapValues}
    \cup {PyDict(<< <<kv[1], kv[3]>>, <<kv[2], kv[4]>> >>) :
            kv \in {x \in MapKeys \X MapKeys \X MapValues \X MapValues : x[1] # x[2]}}
    \cup {PyDict(<< <<Plain(VALID_SHIFTS[1]), PyInt(p)>>, <<Plain(VALID_SHIFTS[2]), PyInt(p)>>,
                    <<Plain(VALID_SHIFTS[3]), PyInt(q)>> >>) : p, q \in 1..MaxPriority}

RawValues == {PyNone, PyDict(<<>>), PyInt(42)} \cup RawStrings \cup RawLists \cup RawMaps

\* one employee with raw preference v on Monday and None on the other days
OneDayInput(v) == PyDict(<< <<EmployeeName(1), WeekOf(v, 1)>> >>)

\* employee keys that are no valid name: empty, whitespace only, None, a number
BadNames == {PyStr("", FALSE, FALSE), PyStr("", FALSE, TRUE), PyNone, PyInt(5)}

\* one employee under a bad key, and a valid employee followed by a bad key
BadNameInputs ==
    {PyDict(<< <<k, WeekOf(PyNone, 7)>> >>) : k \in BadNames}
    \cup {PyDict(<< <<EmployeeName(1), WeekOf(PyNone, 7)>>, <<k, WeekOf(PyNone, 7)>> >>) :
            k \in BadNames}

\* the ways to write one name (case, surrounding whitespace), and another name
NameForms == {PyStr(NamePool[1], c, p) : c \in BOOLEAN, p \in BOOLEAN} \cup {Plain(NamePool[2])}

\* two employees under distinct keys, and a third one under the key None
NamePairInputs ==
    {PyDict(<< <<kk[1], WeekOf(PyNone, 7)>>, <<kk[2], WeekOf(PyNone, 7)>> >>) :
        kk \in {x \in NameForms \X NameForms : x[1] # x[2]}}
    \cup {PyDict(<< <<EmployeeName(1), WeekOf(PyNone, 7)>>,
                    <<Lower(EmployeeName(1)), WeekOf(PyNone, 7)>>,
                    <<PyNone, WeekOf(PyNone, 7)>> >>)}

\* a week in which the key of day j is written k
WeekWithKey(j, k) ==
    PyDict([i \in 1..Len(DAYS_OF_WEEK) |-> <<IF i = j THEN k ELSE DAYS_OF_WEEK[i], PyNone>>])

\* a week without day j
WeekWithout(j) ==
    PyDict([i \in 1..(Len(DAYS_OF_WEEK) - 1) |->
              <<DAYS_OF_WEEK[IF i < j THEN i ELSE i + 1], PyNone>>])

\* a full week with one more key, first or last, and a string preference v
WeekWithExtra(first, v) ==
    IF first THEN PyDict(<< <<"Funday", PyNone>> >> \o WeekOf(v, 1).items)
    ELSE PyDict(WeekOf(v, 1).items \o << <<"Funday", PyNone>> >>)

\* one employee whose week misses a day, has a day written in lower case, or
\* has all seven days and one more key
DayKeyInputs ==
    {PyDict(<< <<EmployeeName(1), w>> >>) :
        w \in {WeekWithout(j) : j \in 1..Len(DAYS_OF_WEEK)}
              \cup {WeekWithKey(1, "monday")}
              \cup {WeekWithExtra(first, v) :
                      first \in BOOLEAN, v \in {PyNone, Plain("evening"), Plain("midnight")}}}

NormalizerInputs ==
    {OneDayInput(v) : v \in RawValues} \cup RejectedInputs \cup BadNameInputs
    \cup NamePairInputs \cup DayKeyInputs

\* one direct call of collect_employee_preferences
InitCollect == \E raw \in NormalizerInputs : InitWith(raw, PyDict(<<>>), "collect", "idle")

SpecCollect == InitCollect /\ [][NextCollect]_vars

\* the normalized mapping as the Python value it is: a dict, per employee a
\* dict, per day a list of shift names
AsRaw(prefs) ==
    LET ListOf(l) == PyList([k \in 1..Len(l) |-> Plain(l[k])])
        WeekAsRaw(days) ==
            PyDict([j \in 1..Len(DAYS_OF_WEEK) |-> <<DAYS_OF_WEEK[j], ListOf(days[DAYS_OF_WEEK[j]])>>])
    IN PyDict([i \in 1..Len(prefs.items) |-> <<prefs.items[i][1], WeekAsRaw(prefs.items[i][2])>>])

\* the caller of test_already_normalized: once the call on the raw input has
\* finished, generate_schedule is called on the normalized form of that input
Renormalize ==
    /\ pc[1] \in {"done", "raised"}
    /\ preferences[1] # Unbound
    /\ pc[2] = "idle"
    /\ raw_preferences' = [raw_preferences EXCEPT ![2] = AsRaw(preferences[1])]
    /\ pc' = [pc EXCEPT ![2] = "start"]
    /\ UNCHANGED <<outcome, preferences, schedule, assigned_count, assigned_today, day,
                   shift, ordered, idx, placed, origin, shuffle>>

\* rosters of five to seven employees with a preference on every day
RoundTripInputs ==
    UNION {{RosterInput(n, f, Len(DAYS_OF_WEEK)) : f \in Blocks(n)} :
             n \in (MinEmployees - 1)..(MinEmployees + 1)}
    \cup RejectedInputs

InitRoundTrip == \E raw \in RoundTripInputs : InitWith(raw, PyDict(<<>>), "start", "idle")

NextRoundTrip == Next \/ Renormalize

SpecRoundTrip == InitRoundTrip /\ [][NextRoundTrip]_vars

\* ================================================================= claims
Started(r) == schedule[r] # Unbound

Returned(r) == pc[r] = "done"

NumEmployees(r) == Len(preferences[r].items)

\* the entries of employee emp in the whole schedule of run r
EntriesOf(r, emp) ==
    {c \in Days \X Shifts \X (1..PerShift) :
        /\ c[3] <= Len(schedule[r][c[1]][c[2]])
        /\ schedule[r][c[1]][c[2]][c[3]] = emp}

\* the entries of day d, morning then afternoon then evening
DayEntries(r, d) ==
    schedule[r][d][VALID_SHIFTS[1]] \o schedule[r][d][VALID_SHIFTS[2]]
        \o schedule[r][d][VALID_SHIFTS[3]]

NoRepeat(list) == \A i, j \in 1..Len(list) : i # j => list[i] # list[j]

\* the last-resort fallback added an entry on day d
LastResortOn(r, d) == \E s \in Shifts : "fallback2" \in Range(origin[r][d][s])

\* C1: at every point of a run, no employee has more than 5 entries in total
\* across the 21 (day, shift) lists of the schedule
C1_WeeklyCap ==
    \A r \in Runs : Started(r) =>
        \A emp \in Range(Employees(r)) : Cardinality(EntriesOf(r, emp)) <= MaxDaysPerWeek

C1_Witness ==
    /\ Returned(1)
    /\ \E emp \in Range(Employees(1)) : Cardinality(EntriesOf(1, emp)) = MaxDaysPerWeek

\* C2 as stated: with at least six employees, no employee has more than one
\* entry on the same day of the returned schedule
C2_Original ==
    \A r \in Runs : (Returned(r) /\ NumEmployees(r) >= MinEmployees) =>
        \A d \in Days : NoRepeat(DayEntries(r, d))

\* C2 amended: with at least six employees, no employee has more than one
\* entry on a day of the returned schedule on which the last-resort fallback
\* added no entry
C2_DailyExclusivity ==
    \A r \in Runs : (Returned(r) /\ NumEmployees(r) >= MinEmployees) =>
        \A d \in Days : ~LastResortOn(r, d) => NoRepeat(DayEntries(r, d))

C2_Witness ==
    /\ Returned(1)
    /\ NumEmployees(1) >= MinEmployees
    /\ \E d \in Days : ~LastResortOn(1, d) /\ Len(DayEntries(1, d)) = PerShift * Len(VALID_SHIFTS)
    /\ \E d \in Days : LastResortOn(1, d) /\ ~NoRepeat(DayEntries(1, d))

\* on every day every shift is ranked first by at least two employees
SpreadAcrossShifts(r) ==
    \A d \in Days, s \in Shifts :
        Cardinality({i \in 1..NumEmployees(r) : preferences[r].items[i][2][d][1] = s}) >= PerShift

RawValue(r, i, d) == DictGet(raw_preferences[r].items[i][2], d)

\* a raw preference that states no preference: None or an empty mapping
NoPreference(v) == v.t = "none" \/ (IsDict(v) /\ Len(v.items) = 0)

\* the i-th employee states a preference on day d and ranks shift s first
RanksFirst(r, i, d, s) ==
    ~NoPreference(RawValue(r, i, d)) /\ preferences[r].items[i][2][d][1] = s

\* the employees with an entry on day d
PlacedOn(r, d) == Range(DayEntries(r, d))

\* the input of C4: on every day two employees rank each shift first, and one
\* further employee, the i0-th, has no preference on any day
ExactMatchInput(r, i0) ==
    /\ \A d \in Days : NoPreference(RawValue(r, i0, d))
    /\ \A d \in Days, s \in Shifts :
          Cardinality({i \in 1..NumEmployees(r) : i # i0 /\ RanksFirst(r, i, d, s)}) = PerShift
    /\ NumEmployees(r) = PerShift * Len(VALID_SHIFTS) + 1

\* C4: when exactly two employees rank each shift first on every day and one
\* further employee has no preference on any day, every shift on every day has
\* exactly two employees and the no-preference employee is never assigned
C4_ExactMatch ==
    \A r \in Runs : Returned(r) =>
        \A i0 \in 1..NumEmployees(r) : ExactMatchInput(r, i0) =>
            /\ \A d \in Days, s \in Shifts : Len(schedule[r][d][s]) = PerShift
            /\ \A d \in Days : Employees(r)[i0] \notin PlacedOn(r, d)

\* the input of C5: everyone ranks shift s first on Monday and on Tuesday and
\* gives no preference on the remaining days
CascadeInput(r, s) ==
    /\ NumEmployees(r) >= MinEmployees
    /\ \A i \in 1..NumEmployees(r), k \in 1..Len(DAYS_OF_WEEK) :
          IF k <= 2 THEN RanksFirst(r, i, DAYS_OF_WEEK[k], s)
          ELSE NoPreference(RawValue(r, i, DAYS_OF_WEEK[k]))

\* C5: given N >= 6 employees who all rank the same shift first on Monday and
\* Tuesday and give no preference afterwards, that shift has exactly two
\* employees on Monday, on Tuesday and on Wednesday, and for N = 6 the union of
\* the three lists is the full employee set
C5_OverflowCascade ==
    \A r \in Runs, s \in Shifts : (Returned(r) /\ CascadeInput(r, s)) =>
        /\ \A k \in 1..3 : Len(schedule[r][DAYS_OF_WEEK[k]][s]) = PerShift
        /\ NumEmployees(r) = MinEmployees =>
              UNION {Range(schedule[r][DAYS_OF_WEEK[k]][s]) : k \in 1..3}
                  = Range(Employees(r))

\* the input of C6: everyone ranks Monday morning first and gives no
\* preference on any other day
ConflictInput(r) ==
    /\ NumEmployees(r) >= MinEmployees
    /\ \A i \in 1..NumEmployees(r), k \in 1..Len(DAYS_OF_WEEK) :
          IF k = 1 THEN RanksFirst(r, i, DAYS_OF_WEEK[k], VALID_SHIFTS[1])
          ELSE NoPreference(RawValue(r, i, DAYS_OF_WEEK[k]))

\* C6: when more than two employees rank Monday morning first and give no
\* preference on any other day, exactly two of them get Monday morning, every
\* Monday shift has at least two employees, and every employee is assigned to
\* some shift on Monday or on Tuesday
C6_ConflictReassignment ==
    \A r \in Runs : (Returned(r) /\ ConflictInput(r)) =>
        /\ Len(schedule[r][DAYS_OF_WEEK[1]][VALID_SHIFTS[1]]) = PerShift
        /\ \A s \in Shifts : Len(schedule[r][DAYS_OF_WEEK[1]][s]) >= PerShift
        /\ Range(Employees(r)) \subseteq
              PlacedOn(r, DAYS_OF_WEEK[1]) \cup PlacedOn(r, DAYS_OF_WEEK[2])

\* the employee identifiers of the input
InputKeys(r) == Range(DictKeys(raw_preferences[r]))

\* C7: from the moment the schedule is created and at every later step it has
\* exactly the seven day keys, each day has exactly the three shift keys, and
\* each value is a list of employee identifiers taken from the input
C7_ShapeInvariant ==
    \A r \in Runs : Started(r) =>
        /\ DOMAIN schedule[r] = Days
        /\ \A d \in DOMAIN schedule[r] :
              /\ DOMAIN schedule[r][d] = Shifts
              /\ \A s \in DOMAIN schedule[r][d] :
                    /\ DOMAIN schedule[r][d][s] = 1..Len(schedule[r][d][s])
                    /\ Range(schedule[r][d][s]) \subseteq InputKeys(r)

C7_Witness ==
    /\ Returned(1)
    /\ outcome[1] = Ok(schedule[1])
    /\ \E d \in Days, s \in Shifts : Len(schedule[1][d][s]) = PerShift
    /\ \E d \in Days, s \in Shifts : Len(schedule[1][d][s]) = 0

Finished(r) == pc[r] \in {"done", "raised"}

\* C9: two runs of generate_schedule on identical input produce identical
\* schedules, including the order of the employees inside every shift list
C9_Determinism ==
    (raw_preferences[1] = raw_preferences[2] /\ Finished(1) /\ Finished(2)) =>
        outcome[1] = outcome[2]

C9_Witness ==
    /\ raw_preferences[1] = raw_preferences[2]
    /\ Returned(1)
    /\ Returned(2)
    /\ outcome[1] = Ok(schedule[1])
    /\ schedule[1] = schedule[2]
    /\ \E d \in Days : Len(DayEntries(1, d)) = PerShift * Len(VALID_SHIFTS)

\* a list is a permutation of the three shift names
IsPermutationOfShifts(list) == Len(list) = Len(VALID_SHIFTS) /\ Range(list) = Shifts

\* a raw preference that is a list in which some element occurs twice
RepeatingList(v) == v.t = "list" /\ ~NoRepeat(v.elems)

\* C10: whenever collect_employee_preferences returns a result, every
\* (employee, day) entry of it is a permutation of the three shift names, and
\* a list preference that repeats a shift name is rejected with InvalidInput
\* instead of being returned
C10_NormalizedPermutation ==
    \A r \in Runs : pc[r] = "returned" =>
        \A i \in 1..NumEmployees(r), d \in Days :
            /\ IsPermutationOfShifts(preferences[r].items[i][2][d])
            /\ ~RepeatingList(RawValue(r, i, d))

\* the shift names other than s, in alphabetical order
OthersAlphabetical(s) == SortedByPriority([u \in Shifts \ {s} |-> 0])

\* C11: a string preference that names shift s (after trimming and
\* lower-casing) normalizes to s first, followed by the other two shift names
\* in alphabetical order
C11_SingleChoice ==
    \A r \in Runs : pc[r] = "returned" =>
        \A i \in 1..NumEmployees(r), d \in Days :
            IsStr(RawValue(r, i, d)) =>
                preferences[r].items[i][2][d]
                    = <<RawValue(r, i, d).base>> \o OthersAlphabetical(RawValue(r, i, d).base)

\* the shifts a priority map names, keys trimmed and lower-cased
NamedShifts(v) == {Strip(Lower(v.items[k][1])).base : k \in 1..Len(v.items)}

\* the priority a map gives to the shift s it names
PriorityIn(v, s) ==
    v.items[CHOOSE k \in 1..Len(v.items) : Strip(Lower(v.items[k][1])).base = s][2].v

\* x may stand before y in the normalized order of the priority map v
MayPrecede(v, x, y) ==
    IF x \in NamedShifts(v) /\ y \in NamedShifts(v)
    THEN \/ PriorityIn(v, x) < PriorityIn(v, y)
         \/ PriorityIn(v, x) = PriorityIn(v, y) /\ AlphaIndex(x) < AlphaIndex(y)
    ELSE IF x \in NamedShifts(v) THEN TRUE
    ELSE y \notin NamedShifts(v) /\ AlphaIndex(x) < AlphaIndex(y)

\* C12: an accepted priority map normalizes to the shifts by ascending
\* priority, ties broken alphabetically, every unnamed shift after every named
\* one and the unnamed ones alphabetically; None or an empty map normalizes to
\* afternoon, evening, morning
C12_MapOrdering ==
    \A r \in Runs : pc[r] = "returned" =>
        \A i \in 1..NumEmployees(r), d \in Days :
            LET v == RawValue(r, i, d)
                list == preferences[r].items[i][2][d]
            IN /\ NoPreference(v) => list = <<"afternoon", "evening", "morning">>
               /\ (IsDict(v) /\ Len(v.items) > 0) =>
                     /\ IsPermutationOfShifts(list)
                     /\ \A a, b \in 1..Len(list) : a < b => MayPrecede(v, list[a], list[b])

C12_Witness ==
    /\ pc[1] = "returned"
    /\ LET v == RawValue(1, 1, DAYS_OF_WEEK[1])
       IN /\ IsDict(v)
          /\ Len(v.items) = 2
          /\ v.items[1][2] = v.items[2][2]
          /\ preferences[1].items[1][2][DAYS_OF_WEEK[1]][1] = Strip(Lower(v.items[2][1])).base
    /\ NoPreference(RawValue(1, 1, DAYS_OF_WEEK[2]))

\* C13: applying collect_employee_preferences to its own result returns an
\* equal mapping, and generate_schedule gives the same outcome for an accepted
\* input and for the normalized form of that input
C13_RoundTrip ==
    \A r, q \in Runs :
        (/\ pc[r] \in {"done", "raised"}
         /\ pc[q] \in {"done", "raised"}
         /\ preferences[r] # Unbound
         /\ raw_preferences[q] = AsRaw(preferences[r])) =>
            /\ preferences[q] = preferences[r]
            /\ outcome[q] = outcome[r]

C13_Witness ==
    /\ Returned(1)
    /\ Returned(2)
    /\ raw_preferences[2] = AsRaw(preferences[1])
    /\ raw_preferences[2] # raw_preferences[1]
    /\ preferences[2] = preferences[1]
    /\ outcome[2] = Ok(schedule[1])
    /\ \E i, j, k \in 1..NumEmployees(1) :
          /\ IsStr(RawValue(1, i, DAYS_OF_WEEK[1]))
          /\ IsDict(RawValue(1, j, DAYS_OF_WEEK[1]))
          /\ RepeatingList(RawValue(1, k, DAYS_OF_WEEK[1]))

\* run r called collect_employee_preferences on one employee with a non-empty
\* priority map on Monday and no preference on the other days
MapCall(r) ==
    /\ pc[r] \in {"returned", "raised"}
    /\ IsDict(raw_preferences[r])
    /\ Len(raw_preferences[r].items) = 1
    /\ IsDict(raw_preferences[r].items[1][2])
    /\ DictHas(raw_preferences[r].items[1][2], DAYS_OF_WEEK[1])
    /\ raw_preferences[r] = OneDayInput(RawValue(r, 1, DAYS_OF_WEEK[1]))
    /\ IsDict(RawValue(r, 1, DAYS_OF_WEEK[1]))
    /\ Len(RawValue(r, 1, DAYS_OF_WEEK[1]).items) > 0

\* the form in which two map keys are compared: lower-cased, and trimmed too
\* when trim
KeyForm(k, trim) == IF trim THEN Strip(Lower(k)) ELSE Lower(k)

\* at most two entries, every key a shift name once trimmed and lower-cased,
\* no two keys of the same form, every priority an integer >= 1
WellFormedMap(v, trim) ==
    /\ Len(v.items) <= 2
    /\ \A k \in 1..Len(v.items) : IsStr(v.items[k][1])
    /\ \A k \in 1..Len(v.items) : Strip(Lower(v.items[k][1])).base \in Shifts
    /\ \A j, k \in 1..Len(v.items) :
          j # k => KeyForm(v.items[j][1], trim) # KeyForm(v.items[k][1], trim)
    /\ \A k \in 1..Len(v.items) : v.items[k][2].t = "int" /\ v.items[k][2].v >= 1

\* the call on a priority map v returned iff v is well formed, and a rejection
\* is a ValueError
AcceptedIff(r, wellFormed) ==
    /\ pc[r] = "returned" <=> wellFormed
    /\ pc[r] = "raised" => outcome[r].exc = "ValueError"

BadName(k) == ~IsStr(k) \/ k.base = ""

\* C15: an input with an employee key that is the empty string, whitespace
\* only or not a string makes collect_employee_preferences fail with
\* ValueError, never with another kind of failure
C15_NameValidation ==
    \A r \in Runs :
        (/\ pc[r] \in {"returned", "raised"}
         /\ IsDict(raw_preferences[r])
         /\ \E i \in 1..Len(raw_preferences[r].items) : BadName(raw_preferences[r].items[i][1])) =>
            /\ pc[r] = "raised"
            /\ outcome[r].exc = "ValueError"

\* the call of run r was rejected as containing duplicate employees
DuplicateRejected(r) ==
    pc[r] = "raised" /\ outcome[r] = Raise("ValueError", "duplicate_employee")

\* a collect_employee_preferences call on a non-empty mapping has finished
CollectCall(r) ==
    /\ pc[r] \in {"returned", "raised"}
    /\ IsDict(raw_preferences[r])
    /\ Len(raw_preferences[r].items) > 0

\* two of the employee keys of run r are strings with the same form
SomeKeysAlike(r, trim) ==
    \E i, j \in 1..Len(raw_preferences[r].items) :
        /\ i # j
        /\ IsStr(raw_preferences[r].items[i][1])
        /\ IsStr(raw_preferences[r].items[j][1])
        /\ KeyForm(raw_preferences[r].items[i][1], trim)
              = KeyForm(raw_preferences[r].items[j][1], trim)

AllKeysStrings(r) ==
    \A i \in 1..Len(raw_preferences[r].items) : IsStr(raw_preferences[r].items[i][1])

DayKeySet(r, i) == Range(DictKeys(raw_preferences[r].items[i][2]))

\* C17: on an input whose employee keys are all strings, a per-day mapping is
\* accepted only if its key set is exactly the seven day names: a mapping that
\* misses a day, or that has a key outside the seven names even with all seven
\* present, is rejected with ValueError
C17_DayKeys ==
    \A r \in Runs : (CollectCall(r) /\ AllKeysStrings(r)) =>
        \A i \in 1..Len(raw_preferences[r].items) :
            (/\ IsDict(raw_preferences[r].items[i][2])
             /\ DayKeySet(r, i) # Days) =>
                /\ pc[r] = "raised"
                /\ outcome[r].exc = "ValueError"

C17_Witness ==
    /\ CollectCall(1)
    /\ AllKeysStrings(1)
    /\ IsDict(raw_preferences[1].items[1][2])
    /\ Days \subseteq DayKeySet(1, 1)
    /\ DayKeySet(1, 1) # Days
    /\ outcome[1] = Raise("ValueError", "invalid_day")

\* the employee identifiers that have an entry in the schedule of run r
ScheduledNames(r) == UNION {Range(schedule[r][d][s]) : d \in Days, s \in Shifts}

\* C18 as stated: every key of the normalized mapping is the lower-cased form
\* of the corresponding input identifier, and every employee identifier in the
\* schedule is lower-case
C18_Original ==
    \A r \in Runs :
        /\ preferences[r] # Unbound =>
              \A i \in 1..NumEmployees(r) :
                  preferences[r].items[i][1] = Lower(raw_preferences[r].items[i][1])
        /\ Started(r) => \A e \in ScheduledNames(r) : ~e.cased

\* C18 amended: every key of the normalized mapping is the corresponding input
\* identifier exactly as the caller wrote it (case and surrounding whitespace
\* kept), and every employee identifier in the schedule is one of the input's
\* identifiers as written
C18_IdentifiersKept ==
    \A r \in Runs :
        /\ preferences[r] # Unbound =>
              DictKeys(preferences[r]) = DictKeys(raw_preferences[r])
        /\ Started(r) => ScheduledNames(r) \subseteq InputKeys(r)

C18_Witness ==
    /\ Returned(1)
    /\ DictKeys(preferences[1]) = DictKeys(raw_preferences[1])
    /\ \E e \in ScheduledNames(1) : e.cased /\ e \in InputKeys(1)
    /\ \A i \in 1..NumEmployees(1) : Employees(1)[i].cased

\* where deterministic_shuffle with seed 1 takes the elements of a list of
\* length n from: output position k holds input position Pattern(n)[k]
Pattern(n) == deterministic_shuffle([k \in 1..n |-> k], DefaultSeed)

\* a list reordered with the pattern of its length
Patterned(list) == [k \in 1..Len(list) |-> list[Pattern(Len(list))[k]]]

\* the candidate list of the current cell has just been built (line 126)
CellBuilt(r) == pc[r] = "step4" /\ idx[r] = 0 /\ placed[r] = 0

\* the rank groups of the current cell, each reordered with the pattern of its
\* length, in ascending rank
RECURSIVE PatternedFrom(_, _)
PatternedFrom(r, rank) ==
    IF rank > Len(VALID_SHIFTS) THEN <<>>
    ELSE Patterned(RankGroup(r, rank)) \o PatternedFrom(r, rank + 1)

\* C19: deterministic_shuffle with seed 1 reorders a list with a position
\* pattern fixed by the length of the list alone, so in every cell of every
\* run each rank group is reordered with the pattern of its length, hence two
\* groups of equal size with the same pattern
C19_LengthOnly ==
    \A r \in Runs : CellBuilt(r) => ordered[r] = PatternedFrom(r, 0)

C19_Witness ==
    /\ CellBuilt(1)
    /\ \E g, h \in 0..Len(VALID_SHIFTS) :
          /\ g # h
          /\ Len(RankGroup(1, g)) = Len(RankGroup(1, h))
          /\ Len(RankGroup(1, g)) >= 3
          /\ ShuffledGroup(1, g, DefaultSeed) # RankGroup(1, g)
          /\ ordered[1] = ShuffledGroup(1, g, DefaultSeed) \o ShuffledGroup(1, h, DefaultSeed)

\* C20: when two generate_schedule runs on their own inputs are interleaved
\* step by step in any order, each run ends with exactly the outcome of a call
\* on its input that runs alone
C20_Independence ==
    \A r \in Runs : Finished(r) => outcome[r] = generate_schedule(raw_preferences[r])

C20_Witness ==
    /\ Returned(1)
    /\ Returned(2)
    /\ raw_preferences[1] # raw_preferences[2]
    /\ outcome[1] # outcome[2]
    /\ outcome[1] = generate_schedule(raw_preferences[1])
    /\ outcome[2] = generate_schedule(raw_preferences[2])

CellNo(dk, sk) == (dk - 1) * Len(VALID_SHIFTS) + sk

\* run r has finished the cell of the dk-th day and sk-th shift
CellDone(r, dk, sk) ==
    Started(r) /\ (pc[r] = "done" \/ CellNo(dk, sk) < CellNo(day[r], shift[r]))

\* run r has just finished the cell of the dk-th day and sk-th shift: it stands
\* before the next cell, or has returned after the last one
JustFinished(r, dk, sk) ==
    /\ Started(r)
    /\ \/ pc[r] = "done" /\ CellNo(dk, sk) = CellNo(Len(DAYS_OF_WEEK), Len(VALID_SHIFTS))
       \/ pc[r] = "cell" /\ CellNo(dk, sk) + 1 = CellNo(day[r], shift[r])

ListAt(r, dk, sk) == schedule[r][DAYS_OF_WEEK[dk]][VALID_SHIFTS[sk]]

OriginAt(r, dk, sk) == origin[r][DAYS_OF_WEEK[dk]][VALID_SHIFTS[sk]]

\* the day and the shift of the cell number n
DayNo(n) == ((n - 1) \div Len(VALID_SHIFTS)) + 1

ShiftNo(n) == ((n - 1) % Len(VALID_SHIFTS)) + 1

\* the number of entries emp had when the cell (dk, sk) began
EntriesBefore(r, emp, dk, sk) ==
    Cardinality({c \in (1..(CellNo(dk, sk) - 1)) \X (1..(2 * PerShift)) :
                   /\ c[2] <= Len(ListAt(r, DayNo(c[1]), ShiftNo(c[1])))
                   /\ ListAt(r, DayNo(c[1]), ShiftNo(c[1]))[c[2]] = emp})

\* emp was in assigned_today when the cell (dk, sk) began: step 4 or the first
\* fallback had placed emp on an earlier shift of the day
MarkedBefore(r, emp, dk, sk) ==
    \E s2 \in 1..(sk - 1) : \E k \in 1..Len(ListAt(r, dk, s2)) :
        ListAt(r, dk, s2)[k] = emp /\ OriginAt(r, dk, s2)[k] # "fallback2"

UnderCapAtStart(r, emp, dk, sk) == EntriesBefore(r, emp, dk, sk) < MaxDaysPerWeek

\* emp was eligible when the cell (dk, sk) began
EligibleAtStart(r, emp, dk, sk) ==
    UnderCapAtStart(r, emp, dk, sk) /\ ~MarkedBefore(r, emp, dk, sk)

\* when a cell is entered, the counters and the placed-today set rebuilt from
\* the schedule are the ones the code tests
StartRebuilt(r) ==
    pc[r] = "cell" =>
        \A emp \in Range(Employees(r)) :
            /\ EntriesBefore(r, emp, day[r], shift[r]) = assigned_count[r][emp]
            /\ MarkedBefore(r, emp, day[r], shift[r]) <=> assigned_today[r][emp]

RankFor(r, emp, dk, sk) == RankOf(PrefList(r, emp, DAYS_OF_WEEK[dk]), VALID_SHIFTS[sk])

\* the employees whose rank for the sk-th shift on Monday is 0
FirstOnMonday(r, sk) == {emp \in Range(Employees(r)) : RankFor(r, emp, 1, sk) = 0}

\* C22: when a cell has just been finished, an employee who was eligible when the cell began
\* and is not in the cell's list was passed over only by two employees that
\* step 4 placed, both eligible and both of a rank not greater than the
\* employee's; when three employees rank Monday morning first exactly two of
\* them have Monday morning, and an employee who then alone ranks Monday
\* afternoon first has Monday afternoon
C22_RankPriority ==
    \A r \in Runs :
        /\ StartRebuilt(r)
        /\ \A dk \in 1..Len(DAYS_OF_WEEK), sk \in 1..Len(VALID_SHIFTS) :
             JustFinished(r, dk, sk) =>
                \A emp \in Range(Employees(r)) :
                    (EligibleAtStart(r, emp, dk, sk) /\ emp \notin Range(ListAt(r, dk, sk))) =>
                        /\ OriginAt(r, dk, sk) = <<"step4", "step4">>
                        /\ \A k \in 1..PerShift :
                             /\ EligibleAtStart(r, ListAt(r, dk, sk)[k], dk, sk)
                             /\ RankFor(r, ListAt(r, dk, sk)[k], dk, sk) <= RankFor(r, emp, dk, sk)
        /\ (JustFinished(r, 1, 2) /\ Cardinality(FirstOnMonday(r, 1)) = 3) =>
              /\ Cardinality(FirstOnMonday(r, 1) \cap Range(ListAt(r, 1, 1))) = 2
              /\ Len(ListAt(r, 1, 1)) = PerShift
              /\ \A emp \in Range(Employees(r)) :
                    FirstOnMonday(r, 2) = {emp} => emp \in Range(ListAt(r, 1, 2))

\* a finished Monday where three rank morning first and lose one of them to a
\* later shift, one employee alone ranks afternoon first, and a later cell
\* passes over an eligible employee of a strictly greater rank
C22_Witness ==
    /\ CellDone(1, 1, 3)
    /\ Cardinality(FirstOnMonday(1, 1)) = 3
    /\ Cardinality(FirstOnMonday(1, 2)) = 1
    /\ FirstOnMonday(1, 2) \subseteq Range(ListAt(1, 1, 2))
    /\ \E emp \in FirstOnMonday(1, 1) : emp \notin Range(ListAt(1, 1, 1))
    /\ \E emp \in Range(Employees(1)) :
          /\ EligibleAtStart(1, emp, 1, 1)
          /\ emp \notin Range(ListAt(1, 1, 1))
          /\ RankFor(1, emp, 1, 1) > RankFor(1, ListAt(1, 1, 1)[2], 1, 1)

\* the employees placed on fewer than five days when the cell (dk, sk) began
UnderCapSetAtStart(r, dk, sk) ==
    {emp \in Range(Employees(r)) : UnderCapAtStart(r, emp, dk, sk)}

\* C23: in a run with at least six employees, a cell that has just been
\* finished with fewer than two entries began with fewer than two employees
\* under the cap, and a cell that began with at least two employees under the
\* cap has exactly two entries
C23_ShortOnlyByCap ==
    \A r \in Runs : \A dk \in 1..Len(DAYS_OF_WEEK), sk \in 1..Len(VALID_SHIFTS) :
        (JustFinished(r, dk, sk) /\ NumEmployees(r) >= MinEmployees) =>
            /\ Len(ListAt(r, dk, sk)) < PerShift =>
                  Cardinality(UnderCapSetAtStart(r, dk, sk)) < PerShift
            /\ Cardinality(UnderCapSetAtStart(r, dk, sk)) >= PerShift =>
                  Len(ListAt(r, dk, sk)) = PerShift

\* a cell that began with exactly two employees under the cap, one of them
\* already placed that day, was filled to two entries
C23_Witness ==
    \E dk \in 1..Len(DAYS_OF_WEEK), sk \in 1..Len(VALID_SHIFTS) :
        /\ JustFinished(1, dk, sk)
        /\ Cardinality(UnderCapSetAtStart(1, dk, sk)) = PerShift
        /\ \E emp \in UnderCapSetAtStart(1, dk, sk) : MarkedBefore(1, emp, dk, sk)
        /\ Len(ListAt(1, dk, sk)) = PerShift

\* the entries of the dk-th day in the order they were appended, each one as
\* <<employee, the loop that appended it>>
DayTrail(r, dk) ==
    LET Cell(sk) == [k \in 1..Len(ListAt(r, dk, sk)) |->
                       <<ListAt(r, dk, sk)[k], OriginAt(r, dk, sk)[k]>>]
    IN Cell(1) \o Cell(2) \o Cell(3)

\* the employees eligible when the cell (dk, sk) began
EligibleSetAtStart(r, dk, sk) ==
    {emp \in Range(Employees(r)) : EligibleAtStart(r, emp, dk, sk)}

\* C24: at every point of a run, an entry whose employee already has an earlier
\* entry on the same day was appended by the last-resort fallback, never by
\* step 4 or the first fallback; and a cell that holds a last-resort entry began
\* with fewer than two employees both under the cap and not yet placed that day
C24_DoubleBookingOnlyLastResort ==
    \A r \in Runs : Started(r) =>
        /\ \A dk \in 1..Len(DAYS_OF_WEEK) :
             \A i, j \in 1..Len(DayTrail(r, dk)) :
                (i < j /\ DayTrail(r, dk)[i][1] = DayTrail(r, dk)[j][1]) =>
                    DayTrail(r, dk)[j][2] = "fallback2"
        /\ \A dk \in 1..Len(DAYS_OF_WEEK), sk \in 1..Len(VALID_SHIFTS) :
             (JustFinished(r, dk, sk) /\ "fallback2" \in Range(OriginAt(r, dk, sk))) =>
                 Cardinality(EligibleSetAtStart(r, dk, sk)) < PerShift

\* a cell that began with no eligible employee and was filled by the last
\* resort with two employees who already had an entry that day
C24_Witness ==
    \E dk \in 1..Len(DAYS_OF_WEEK), sk \in 1..Len(VALID_SHIFTS) :
        /\ JustFinished(1, dk, sk)
        /\ EligibleSetAtStart(1, dk, sk) = {}
        /\ OriginAt(1, dk, sk) = <<"fallback2", "fallback2">>
        /\ \A k \in 1..PerShift : MarkedBefore(1, ListAt(1, dk, sk)[k], dk, sk)

\* the input of run r is accepted and has at least six employees
AcceptedAndStaffed(r) ==
    LET res == collect_employee_preferences(raw_preferences[r])
    IN res.ok /\ Len(res.val.items) >= MinEmployees

\* run r is inside the loops over the cells
InCells(r) == pc[r] \in {"cell", "step4", "fallback1", "fallback2"}

\* one step of run r keeps the order of the cells: the first cell entered is
\* Monday morning, a cell is entered once, in a single step that builds its
\* candidate list, the cell after it is the next one in the order of the days
\* and of the shifts, the run returns from Sunday evening, and a step changes
\* no list but the one of the cell the run is in
InOrder(r) ==
    /\ (pc[r] = "start" /\ pc'[r] = "cell") => CellNo(day'[r], shift'[r]) = 1
    /\ (InCells(r) /\ InCells(r)') =>
          /\ CellNo(day'[r], shift'[r]) \in
                {CellNo(day[r], shift[r]), CellNo(day[r], shift[r]) + 1}
          /\ CellNo(day'[r], shift'[r]) = CellNo(day[r], shift[r]) + 1 <=>
                (pc[r] # "cell" /\ pc'[r] = "cell")
          /\ pc[r] = "cell" => pc'[r] = "step4"
    /\ (InCells(r) /\ pc'[r] = "done") =>
          /\ CellNo(day[r], shift[r]) = Len(DAYS_OF_WEEK) * Len(VALID_SHIFTS)
          /\ pc[r] # "cell"
    /\ (InCells(r) /\ pc'[r] \notin {"done"}) => InCells(r)'
    /\ (InCells(r) \/ pc[r] = "done") =>
          \A dk \in 1..Len(DAYS_OF_WEEK), sk \in 1..Len(VALID_SHIFTS) :
             (pc[r] = "done" \/ pc[r] = "cell" \/ CellNo(dk, sk) # CellNo(day[r], shift[r])) =>
                 ListAt(r, dk, sk)' = ListAt(r, dk, sk)

\* C25: a generate_schedule call on an accepted input with at least six
\* employees eventually returns; it goes through the 21 cells once each, Monday
\* to Sunday and morning, afternoon, evening within a day, and never changes
\* the list of a cell it has left; every step of the call moves it to another
\* position
C25_TerminationAndOrder ==
    /\ \A r \in Runs : (pc[r] = "start" /\ AcceptedAndStaffed(r)) ~> (pc[r] = "done")
    /\ [][/\ \A r \in Runs : InOrder(r)
          /\ \E r \in Runs : Running(r) /\ <<pc[r], idx[r], placed[r]>>' # <<pc[r], idx[r], placed[r]>>]_vars

\* a call that returned from Sunday evening with the schedule it built
C25_Witness ==
    /\ pc[1] = "done"
    /\ AcceptedAndStaffed(1)
    /\ CellNo(day[1], shift[1]) = Len(DAYS_OF_WEEK) * Len(VALID_SHIFTS)
    /\ outcome[1] = Ok(schedule[1])
    /\ Len(ListAt(1, 1, 1)) = PerShift

\* C26: whenever a run stands in the first fallback (step 4 left the cell with
\* fewer than two entries), no employee is both under the cap and unplaced that
\* day, and no entry of the schedule was appended by the first fallback
C26_FirstFallbackIdle ==
    \A r \in Runs : Started(r) =>
        /\ pc[r] = "fallback1" =>
              /\ placed[r] < PerShift
              /\ \A emp \in Range(Employees(r)) : ~Available(r, emp)
        /\ \A d \in Days, s \in Shifts :
              Range(origin[r][d][s]) \subseteq {"step4", "fallback2"}

\* the first fallback has scanned the employees of a cell that step 4 left
\* with one entry, added nothing, and handed over to the last resort while
\* some employee is still under the cap
C26_Witness ==
    /\ pc[1] = "fallback2"
    /\ idx[1] = 0
    /\ placed[1] = 1
    /\ OriginAt(1, day[1], shift[1]) = <<"step4">>
    /\ \E emp \in Range(Employees(1)) : UnderCap(1, emp)

\* C27: at every point of a run, no (day, shift) list contains the same
\* employee twice; in particular no list holds an entry of step 4 followed by a
\* last-resort entry for the same employee
C27_NoDuplicateInList ==
    \A r \in Runs : Started(r) =>
        \A d \in Days, s \in Shifts : NoRepeat(schedule[r][d][s])

\* the number of entries of emp in the whole schedule of run r, lists of at
\* most two entries
EntryCount(r, emp) == Cardinality(EntriesOf(r, emp))

\* C28: at every point of a run every (day, shift) list has at most two
\* entries, and each employee's counter equals the number of entries the
\* employee has in the schedule built so far
C28_CeilingAndCounters ==
    \A r \in Runs : Started(r) =>
        /\ \A d \in Days, s \in Shifts : Len(schedule[r][d][s]) <= PerShift
        /\ \A emp \in Range(Employees(r)) : assigned_count[r][emp] = EntryCount(r, emp)

\* in the middle of a cell: one entry appended to a list by step 4 and counted,
\* next to an employee with two entries in one list and a counter that
\* counts both
C28_Witness ==
    /\ pc[1] = "step4"
    /\ placed[1] = 1
    /\ Len(ListAt(1, day[1], shift[1])) = 1
    /\ assigned_count[1][ListAt(1, day[1], shift[1])[1]] = MaxDaysPerWeek
    /\ \E dk \in 1..Len(DAYS_OF_WEEK), sk \in 1..Len(VALID_SHIFTS) :
          /\ Len(ListAt(1, dk, sk)) = PerShift
          /\ ListAt(1, dk, sk)[1] = ListAt(1, dk, sk)[2]

\* C29: in a run with at least 13 employees no list ever holds the same
\* employee twice, no employee has two entries on one day, the last resort
\* never adds an entry, and the returned schedule has exactly two employees in
\* each of the 21 cells
C29_AmpleStaffPerfect ==
    \A r \in Runs : (Started(r) /\ NumEmployees(r) >= FullStaff) =>
        /\ \A d \in Days : NoRepeat(DayEntries(r, d)) /\ ~LastResortOn(r, d)
        /\ Returned(r) =>
              \A d \in Days, s \in Shifts :
                  /\ Len(schedule[r][d][s]) = PerShift
                  /\ schedule[r][d][s][1] # schedule[r][d][s][2]

\* a run with exactly 13 employees, all asking for the same shift, has returned
\* with a Sunday evening of two employees, and some employee has reached the cap
C29_Witness ==
    /\ Returned(1)
    /\ NumEmployees(1) = FullStaff
    /\ \A i \in 1..NumEmployees(1) : RanksFirst(1, i, DAYS_OF_WEEK[1], VALID_SHIFTS[1])
    /\ Len(ListAt(1, Len(DAYS_OF_WEEK), Len(VALID_SHIFTS))) = PerShift
    /\ \E emp \in Range(Employees(1)) : assigned_count[1][emp] = MaxDaysPerWeek

\* how many times x occurs in list
Occurrences(list, x) == Cardinality({k \in 1..Len(list) : list[k] = x})

SameElements(a, b) ==
    /\ Len(a) = Len(b)
    /\ \A x \in Range(a) \cup Range(b) : Occurrences(a, x) = Occurrences(b, x)

\* C30: a deterministic_shuffle call returns; it makes one swap per element of
\* its argument and returns after exactly len(arr) swaps; after each swap
\* 0 <= i <= m, m being already decremented and below the length of the list;
\* the working list always has the elements of the argument, each as many
\* times; the list the caller passed stays as it was; and the list returned is
\* the one the scheduler's tie-breaker computes
C30_TruePermutation ==
    /\ (shuffle.pc = "call") ~> (shuffle.pc = "returned")
    /\ [](shuffle.pc \in {"loop", "returned"} =>
            /\ shuffle.swaps + shuffle.m = Len(shuffle.given)
            /\ shuffle.swaps > 0 =>
                  (0 <= shuffle.i /\ shuffle.i <= shuffle.m /\ shuffle.m < Len(shuffle.arr))
            /\ SameElements(shuffle.arr, shuffle.given)
            /\ shuffle.pc = "returned" =>
                  /\ shuffle.swaps = Len(shuffle.given)
                  /\ shuffle.arr = deterministic_shuffle(shuffle.given, shuffle.seed))
    /\ [][shuffle'.given = shuffle.given]_vars

\* a list with a repeated element came back in another order after as many
\* swaps as it has elements, the argument being as the caller passed it
C30_Witness ==
    /\ shuffle.pc = "returned"
    /\ shuffle.swaps = MaxShuffleLen
    /\ shuffle.arr # shuffle.given
    /\ \E x \in Range(shuffle.given) : Occurrences(shuffle.given, x) = 2
    /\ shuffle.given[1] = NamePool[1]
    /\ shuffle.seed = DefaultSeed

====
